---- MODULE Spec2Model ----
(***************************************************************************)
(* A model of the owlex agent runners: the aichat and OpenCode adapters    *)
(* (command construction, session-reference validation, output cleaning,  *)
(* session discovery) and the round-2 dispatch rule of the council.       *)
(*                                                                         *)
(* A Python str is modelled as a sequence of one-character strings, so    *)
(* that startswith, strip and the regular expressions are computed on the *)
(* characters and not looked up.                                           *)
(***************************************************************************)
EXTENDS Integers, Sequences, FiniteSets, TLC

VARIABLES
    cfg,                \* the ambient configuration object read by the runners
    last_session_name,  \* AiChatRunner._last_session_name
    call,               \* the last runner call: its arguments and its outcome
    last_exec_command,  \* history: argument list of the latest aichat exec command
    invName,            \* history: session name carried by each invocation's command
    invParsed,          \* history: what parse_session_id returned to each invocation
    cleaner,            \* the runner whose output cleaner is applied
    raw_output,         \* the text first handed to the cleaner
    outputs,            \* what the successive applications of the cleaner returned
    phase,              \* the council orchestrator's state
    team,               \* the agents the council run resolved
    r1_status,          \* each agent's round-1 status
    session_store,      \* each agent's round-1 session handle, if any
    r2_dispatched,      \* the agents a round-2 resume command was dispatched to
    root_exists,        \* whether ~/.local/share/opencode/storage/session exists
    fs,                 \* the files under it: the mtime of each, 0 if absent
    lookup,             \* get_latest_opencode_session: arguments, position, result
    trace,              \* history: the scans and sleeps of the lookup, in order
    seen,               \* history: the files the scan that ended the lookup could read
    written             \* history: the files written since the lookup started

runnerVars == <<cfg, last_session_name, call, last_exec_command>>
invVars == <<invName, invParsed>>
cleanVars == <<cleaner, raw_output, outputs>>
councilVars == <<phase, team, r1_status, session_store, r2_dispatched>>
lookupVars == <<root_exists, fs, lookup, trace, seen, written>>
vars == <<runnerVars, invVars, cleanVars, councilVars, lookupVars>>

\* what the steps of the runners, of the cleaners and of the council leave alone
notRunnerVars == <<cleanVars, councilVars, lookupVars>>
notCleanVars == <<last_session_name, call, last_exec_command, invVars, councilVars,
                  lookupVars>>
notCouncilVars == <<runnerVars, invVars, cleanVars, lookupVars>>
notLookupVars == <<runnerVars, invVars, cleanVars, councilVars>>

----------------------------------------------------------------------------
(* Bounds of the model *)

\* session references of every length up to MaxRefLen over RefAlphabet
MaxRefLen == 2
\* number of distinct values uuid4().hex[:12] can take in the model
MaxIds == 2
\* number of invocations (council runs) sharing one AiChatRunner instance
MaxInv == 2
\* longest text handed to an output cleaner
MaxTextLen == 6
\* number of times a cleaner is applied in a row
MaxPasses == 2
\* modification times are 1..MaxMTime
MaxMTime == 2

----------------------------------------------------------------------------
(* Strings *)

None == <<"None">>          \* Python's None (no str has a 4-character "character")

DASH == "-"

StartsWith(s, c) == Len(s) > 0 /\ s[1] = c

RECURSIVE SeqsUpTo(_, _)
SeqsUpTo(A, n) ==
    IF n = 0 THEN {<<>>}
    ELSE LET shorter == SeqsUpTo(A, n - 1)
         IN  shorter \cup {Append(s, a) : s \in {t \in shorter : Len(t) = n - 1}, a \in A}

\* the literal words of the two command lines
W_aichat   == <<"a","i","c","h","a","t">>
W_opencode == <<"o","p","e","n","c","o","d","e">>
W_run      == <<"r","u","n">>
W_m        == <<"-","m">>
W_s        == <<"-","s">>
W_model    == <<"-","-","m","o","d","e","l">>
W_agent    == <<"-","-","a","g","e","n","t">>
W_format   == <<"-","-","f","o","r","m","a","t">>
W_json     == <<"j","s","o","n">>
W_session  == <<"-","-","s","e","s","s","i","o","n">>
W_continue == <<"-","-","c","o","n","t","i","n","u","e">>
W_latest   == <<"l","a","t","e","s","t">>
W_dashdash == <<"-","-">>
W_owlex    == <<"o","w","l","e","x","-">>

----------------------------------------------------------------------------
(* Inputs *)

\* values of config.<agent>.model / config.opencode.agent; <<>> is falsy (unset)
OptionValues == {<<>>, <<"g","4">>, W_dashdash}

Prompts == {<<"h","i">>, <<"-","x">>, W_dashdash}

RefAlphabet == {DASH, "s"}

SessionRefs ==
    SeqsUpTo(RefAlphabet, MaxRefLen)
        \cup {W_continue, W_latest, <<"-","-","f","o","o">>,
              <<"s","e","s","_","1">>, W_owlex \o <<"1">>}

Configs ==
    [aichat_model  : OptionValues,
     opencode_model : OptionValues,
     opencode_agent : OptionValues,
     json_output    : BOOLEAN,
     aichat_clean_output   : BOOLEAN,
     opencode_clean_output : BOOLEAN]

\* the configurations of the command builders, which do not read clean_output
BuilderConfigs ==
    {c \in Configs : c.aichat_clean_output /\ c.opencode_clean_output}

\* the configurations that differ in what the cleaners and the aichat runner read
CleanerConfigs ==
    {c \in Configs : c.opencode_model = <<>> /\ c.opencode_agent = <<>>
                        /\ ~c.json_output /\ c.aichat_model = <<>>}

----------------------------------------------------------------------------
(* AgentCommand, and the outcome of a builder call *)

\* cwd (the working_directory argument, handed on as it is) and not_found_hint
\* (a fixed text) are left out of the record
NoCommand == [command |-> <<>>, prompt |-> None, output_prefix |-> "", stream |-> FALSE]

AgentCommand(command, prompt, output_prefix, stream) ==
    [command |-> command, prompt |-> prompt,
     output_prefix |-> output_prefix, stream |-> stream]

Returned(cmd) == [raised |-> FALSE, cmd |-> cmd]
Raised == [raised |-> TRUE, cmd |-> NoCommand]

NoCall == [runner |-> "none", op |-> "none", session_ref |-> None, prompt |-> None,
           raised |-> FALSE, cmd |-> NoCommand, token |-> None]

----------------------------------------------------------------------------
(* AiChatRunner *)

HexChars == <<"0","1","2","3","4","5","6","7","8","9","a","b","c","d","e","f">>

\* uuid.uuid4().hex[:12]: one of MaxIds values, chosen by the environment
UuidHex == {<<HexChars[i]>> : i \in 1..MaxIds}

\* f"owlex-{uuid.uuid4().hex[:12]}"
SessionNames == {W_owlex \o h : h \in UuidHex}

\* if config.aichat.model: full_command.extend(["-m", config.aichat.model])
AiChatModelArgs(c) ==
    IF c.aichat_model # <<>> THEN <<W_m, c.aichat_model>> ELSE <<>>

AiChatExecCommand(c, session_name, prompt) ==
    AgentCommand(<<W_aichat>> \o AiChatModelArgs(c) \o <<W_s, session_name>>,
                 prompt, "AiChat Output", TRUE)

\* a validation that refuses a '-' anywhere in the reference
AiChatRejects_AnyDash(session_ref) ==
    \E i \in 1..Len(session_ref) : session_ref[i] = DASH

\* session_ref.startswith("-")
AiChatRejects(session_ref) == StartsWith(session_ref, DASH)

\* a resume command left in streaming mode
AiChatResumeStream_Streaming == TRUE

\* stream=False in build_resume_command
AiChatResumeStream == FALSE

AiChatResumeCommand(c, session_ref, prompt) ==
    IF AiChatRejects(session_ref)
    THEN Raised
    ELSE Returned(AgentCommand(
            <<W_aichat>> \o AiChatModelArgs(c) \o <<W_s, session_ref>>,
            prompt, "AiChat Output", AiChatResumeStream))

\* a runner that keeps the first name it generated
StoredAfterExec_KeepFirst(old, session_name) ==
    IF old = None THEN session_name ELSE old

\* the field build_exec_command leaves in the runner
StoredAfterExec(old, session_name) == session_name

\* what parse_session_id returns
AiChatParsed(stored) == stored

AiChat_build_exec_command ==
    \E prompt \in Prompts, session_name \in SessionNames :
        LET cmd == AiChatExecCommand(cfg, session_name, prompt)
        IN  /\ last_session_name' = StoredAfterExec(last_session_name, session_name)
            /\ last_exec_command' = cmd.command
            /\ call' = [runner |-> "aichat", op |-> "exec", session_ref |-> None,
                        prompt |-> prompt, raised |-> FALSE, cmd |-> cmd,
                        token |-> None]
            /\ UNCHANGED cfg

AiChat_build_resume_command ==
    \E session_ref \in SessionRefs, prompt \in Prompts :
        LET r == AiChatResumeCommand(cfg, session_ref, prompt)
        IN  /\ call' = [runner |-> "aichat", op |-> "resume",
                        session_ref |-> session_ref, prompt |-> prompt,
                        raised |-> r.raised, cmd |-> r.cmd, token |-> None]
            /\ UNCHANGED <<cfg, last_session_name, last_exec_command>>

\* output, since_mtime and working_directory are accepted and not read
AiChat_parse_session_id ==
    /\ call' = [runner |-> "aichat", op |-> "parse", session_ref |-> None,
                prompt |-> None, raised |-> FALSE, cmd |-> NoCommand,
                token |-> AiChatParsed(last_session_name)]
    /\ UNCHANGED <<cfg, last_session_name, last_exec_command>>

----------------------------------------------------------------------------
(* OpenCodeRunner *)

OpenCodeOptionArgs(c) ==
    (IF c.opencode_model # <<>> THEN <<W_model, c.opencode_model>> ELSE <<>>)
    \o (IF c.opencode_agent # <<>> THEN <<W_agent, c.opencode_agent>> ELSE <<>>)
    \o (IF c.json_output THEN <<W_format, W_json>> ELSE <<>>)

\* a builder that appends the prompt without the end-of-options marker
OpenCodePromptArgs_NoMarker(prompt) == <<prompt>>

\* full_command.append("--"); full_command.append(prompt)
OpenCodePromptArgs(prompt) == <<W_dashdash, prompt>>

OpenCodeExecCommand(c, prompt) ==
    AgentCommand(<<W_opencode, W_run>> \o OpenCodeOptionArgs(c)
                    \o OpenCodePromptArgs(prompt),
                 <<>>, "OpenCode Output", TRUE)

\* a builder that lost its validation
OpenCodeRejects_NoCheck(session_ref) == FALSE

\* session_ref.startswith("-"), reached only in the else branch
OpenCodeRejects(session_ref) == StartsWith(session_ref, DASH)

\* the "Session resume" block: the arguments it adds, or the error
OpenCodeSessionArgs(session_ref) ==
    IF session_ref = W_continue \/ session_ref = W_latest
    THEN [raised |-> FALSE, args |-> <<W_continue>>]
    ELSE IF OpenCodeRejects(session_ref)
         THEN [raised |-> TRUE, args |-> <<>>]
         ELSE [raised |-> FALSE, args |-> <<W_session, session_ref>>]

\* stream=False in build_resume_command
OpenCodeResumeStream == FALSE

OpenCodeResumeCommand(c, session_ref, prompt) ==
    LET s == OpenCodeSessionArgs(session_ref)
    IN  IF s.raised
        THEN Raised
        ELSE Returned(AgentCommand(
                <<W_opencode, W_run>> \o OpenCodeOptionArgs(c) \o s.args
                    \o OpenCodePromptArgs(prompt),
                <<>>, "OpenCode Resume Output", OpenCodeResumeStream))

OpenCode_build_exec_command ==
    \E prompt \in Prompts :
        /\ call' = [runner |-> "opencode", op |-> "exec", session_ref |-> None,
                    prompt |-> prompt, raised |-> FALSE,
                    cmd |-> OpenCodeExecCommand(cfg, prompt), token |-> None]
        /\ UNCHANGED <<cfg, last_session_name, last_exec_command>>

OpenCode_build_resume_command ==
    \E session_ref \in SessionRefs, prompt \in Prompts :
        LET r == OpenCodeResumeCommand(cfg, session_ref, prompt)
        IN  /\ call' = [runner |-> "opencode", op |-> "resume",
                        session_ref |-> session_ref, prompt |-> prompt,
                        raised |-> r.raised, cmd |-> r.cmd, token |-> None]
            /\ UNCHANGED <<cfg, last_session_name, last_exec_command>>

----------------------------------------------------------------------------
(* Spec: the two runners' command builders, called in any order *)

Pending == <<"pending">>

InvIdle ==
    /\ invName = [i \in 1..MaxInv |-> None]
    /\ invParsed = [i \in 1..MaxInv |-> Pending]

RunnerInit ==
    /\ last_session_name = None     \* AiChatRunner.__init__
    /\ last_exec_command = None
    /\ call = NoCall

CleanIdle ==
    /\ cleaner = "none"
    /\ raw_output = <<>>
    /\ outputs = <<>>

\* the agents of the council
Agents == {"Codex", "Gemini", "OpenCode", "ClaudeOR"}

CouncilIdle ==
    /\ phase = "RoleResolution"
    /\ team = {}
    /\ r1_status = [a \in Agents |-> "none"]
    /\ session_store = [a \in {} |-> None]
    /\ r2_dispatched = {}

\* the session files of the storage tree: <project hash>/<file name>
F_ses1  == <<"s","e","s","_","1",".","j","s","o","n">>
F_ses2  == <<"s","e","s","_","2",".","j","s","o","n">>
F_ses3  == <<"s","e","s","_","3",".","j","s","o","n">>
F_notes == <<"n","o","t","e","s",".","j","s","o","n">>

FileSlots ==
    {[dir |-> "hP", name |-> F_ses1], [dir |-> "hP", name |-> F_ses2],
     [dir |-> "hP", name |-> F_notes], [dir |-> "hQ", name |-> F_ses3]}

NoLookup == [pc |-> "idle", working_directory |-> None, since_mtime |-> <<>>,
             max_retries |-> 0, attempt |-> 0, result |-> None]

LookupIdle ==
    /\ root_exists = FALSE
    /\ fs = [f \in FileSlots |-> 0]
    /\ lookup = NoLookup
    /\ trace = <<>>
    /\ seen = {}
    /\ written = {}

Init ==
    /\ cfg \in BuilderConfigs
    /\ RunnerInit
    /\ InvIdle
    /\ CleanIdle
    /\ CouncilIdle
    /\ LookupIdle

Next ==
    \/ (AiChat_build_exec_command /\ UNCHANGED <<invVars, notRunnerVars>>)
    \/ (AiChat_build_resume_command /\ UNCHANGED <<invVars, notRunnerVars>>)
    \/ (AiChat_parse_session_id /\ UNCHANGED <<invVars, notRunnerVars>>)
    \/ (OpenCode_build_exec_command /\ UNCHANGED <<invVars, notRunnerVars>>)
    \/ (OpenCode_build_resume_command /\ UNCHANGED <<invVars, notRunnerVars>>)

Spec == Init /\ [][Next]_vars

----------------------------------------------------------------------------
(* SpecAichat: several invocations (council runs) share one AiChatRunner.   *)
(* Each invocation builds its exec command, runs the tool, and then asks    *)
(* the runner for its session id; the invocations interleave freely.        *)

InvocationExec(i) ==
    /\ invName[i] = None
    /\ AiChat_build_exec_command
    /\ invName' = [invName EXCEPT ![i] = call'.cmd.command[Len(call'.cmd.command)]]
    /\ UNCHANGED <<invParsed, notRunnerVars>>

InvocationParse(i) ==
    /\ invName[i] # None
    /\ invParsed[i] = Pending
    /\ AiChat_parse_session_id
    /\ invParsed' = [invParsed EXCEPT ![i] = call'.token]
    /\ UNCHANGED <<invName, notRunnerVars>>

InvocationResume(i) ==
    /\ invParsed[i] # Pending
    /\ AiChat_build_resume_command
    /\ UNCHANGED <<invVars, notRunnerVars>>

InitAichat ==
    /\ cfg \in {c \in BuilderConfigs : c.opencode_model = <<>> /\ c.opencode_agent = <<>>
                                          /\ ~c.json_output}
    /\ RunnerInit
    /\ InvIdle
    /\ CleanIdle
    /\ CouncilIdle
    /\ LookupIdle

NextAichat ==
    \E i \in 1..MaxInv :
        \/ InvocationExec(i)
        \/ InvocationParse(i)
        \/ InvocationResume(i)

SpecAichat == InitAichat /\ [][NextAichat]_vars

\* C10: the parse_session_id call made for an invocation returns the session
\* name carried by that invocation's own exec command, under every interleaving
\* of the invocations on one runner.
C10_ParseReturnsOwnName ==
    \A i \in 1..MaxInv : invParsed[i] # Pending => invParsed[i] = invName[i]

----------------------------------------------------------------------------
(* Claims about the command builders (checked under Spec) *)

IsResume(r) == call.runner = r /\ call.op = "resume"
IsExec(r) == call.runner = r /\ call.op = "exec"
Args == call.cmd.command

\* the position of the first "--" element of an argument list, 0 if none
FirstDashDash(args) ==
    IF \E i \in 1..Len(args) : args[i] = W_dashdash
    THEN CHOOSE i \in 1..Len(args) :
            /\ args[i] = W_dashdash
            /\ \A j \in 1..(i - 1) : args[j] # W_dashdash
    ELSE 0

\* C1 as stated: for both runners, build_resume_command raises and returns no
\* AgentCommand for every session_ref that begins with '-'.
C1_AllDashRefsRejected ==
    (call.op = "resume" /\ StartsWith(call.session_ref, DASH))
        => (call.raised /\ call.cmd = NoCommand)

\* C1 as amended: build_resume_command raises and returns no AgentCommand for
\* every session_ref that begins with '-', except that OpenCodeRunner accepts the
\* exact value '--continue', for which it emits the --continue flag right before
\* the end-of-options marker and no --session value; the value an argument list
\* carries after -s or --session never begins with '-'.
C1_DashRefsRejectedExceptContinue ==
    /\ (call.op = "resume" /\ StartsWith(call.session_ref, DASH)
            /\ ~(call.runner = "opencode" /\ call.session_ref = W_continue))
        => (call.raised /\ call.cmd = NoCommand)
    /\ (IsResume("opencode") /\ call.session_ref = W_continue)
        => /\ ~call.raised
           /\ Args[Len(Args) - 2] = W_continue
           /\ Args[Len(Args) - 3] # W_session
    /\ (IsResume("aichat") /\ ~call.raised)
        => (Args[Len(Args) - 1] = W_s /\ ~StartsWith(Args[Len(Args)], DASH))
    /\ (IsResume("opencode") /\ ~call.raised /\ Args[Len(Args) - 3] = W_session)
        => ~StartsWith(Args[Len(Args) - 2], DASH)

C1_Witness ==
    /\ IsResume("opencode")
    /\ call.session_ref = <<"-","-","f","o","o">>
    /\ call.raised

\* C2 as stated: in every argument list OpenCodeRunner returns, the prompt is
\* last, '--' is right before it, the stdin prompt is empty, and nothing but the
\* prompt follows the first '--'.
C2_PromptAfterFirstMarker ==
    (call.runner = "opencode" /\ call.op \in {"exec", "resume"} /\ ~call.raised)
        => /\ Args[Len(Args)] = call.prompt
           /\ Args[Len(Args) - 1] = W_dashdash
           /\ call.cmd.prompt = <<>>
           /\ FirstDashDash(Args) = Len(Args) - 1

\* C2 as amended: in every argument list OpenCodeRunner returns, the prompt is
\* last, '--' is right before it and the stdin prompt is empty; and when neither
\* the configured model nor the configured agent is itself '--', nothing but the
\* prompt follows the first '--'.
C2_PromptAfterMarker ==
    (call.runner = "opencode" /\ call.op \in {"exec", "resume"} /\ ~call.raised)
        => /\ Args[Len(Args)] = call.prompt
           /\ Args[Len(Args) - 1] = W_dashdash
           /\ call.cmd.prompt = <<>>
           /\ (cfg.opencode_model # W_dashdash /\ cfg.opencode_agent # W_dashdash)
                => FirstDashDash(Args) = Len(Args) - 1

C2_Witness ==
    /\ IsResume("opencode")
    /\ ~call.raised
    /\ call.prompt = <<"-","x">>
    /\ cfg.opencode_model = <<"g","4">>
    /\ cfg.json_output
    /\ Args[Len(Args)] = <<"-","x">>

\* C4: every command build_exec_command returns has the streaming flag set, and
\* every command build_resume_command returns has it cleared, for both runners.
C4_StreamPerOperation ==
    /\ (call.op = "exec" /\ ~call.raised) => call.cmd.stream
    /\ (call.op = "resume" /\ ~call.raised) => ~call.cmd.stream

C4_Witness ==
    /\ IsResume("aichat")
    /\ ~call.raised
    /\ call.cmd # NoCommand
    /\ ~call.cmd.stream

\* C9: AiChatRunner.parse_session_id returns the session name the latest
\* build_exec_command put after '-s' (none before any exec), and
\* build_resume_command and parse_session_id leave the stored name unchanged.
C9_ParseReturnsLastGenerated ==
    /\ [](call.runner = "aichat" /\ call.op = "parse"
            => IF last_exec_command = None
               THEN call.token = None
               ELSE /\ last_exec_command[Len(last_exec_command) - 1] = W_s
                    /\ last_exec_command[Len(last_exec_command)] = call.token)
    /\ [][(call'.runner = "aichat" /\ call'.op \in {"resume", "parse"})
            => last_session_name' = last_session_name]_vars

C9_Witness ==
    /\ call.runner = "aichat"
    /\ call.op = "parse"
    /\ last_exec_command # None
    /\ call.token = W_owlex \o <<"1">>

----------------------------------------------------------------------------
(* Output cleaning *)

ESC == "ESC"        \* the character \x1b
NL == "\n"

\* the characters of the texts: the ones the two patterns and strip() tell apart
TextAlphabet == {ESC, "[", "1", "m", NL, " "}

\* the texts of at most n characters
Texts(n) == SeqsUpTo(TextAlphabet, n)

\* [0-9;]
AnsiParams == {"0","1","2","3","4","5","6","7","8","9",";"}

\* str.strip() removes these from both ends
Whitespace == {" ", NL, "\t", "\r"}

\* the first position from i on that holds no character of set S (Len + 1 if none)
RECURSIVE SkipWhile(_, _, _)
SkipWhile(s, i, S) ==
    IF i <= Len(s) /\ s[i] \in S THEN SkipWhile(s, i + 1, S) ELSE i

\* re.sub(r'\x1b\[[0-9;]*m', '', s) from position i: leftmost matches, one scan
RECURSIVE StripAnsiFrom(_, _)
StripAnsiFrom(s, i) ==
    IF i > Len(s) THEN <<>>
    ELSE LET j == SkipWhile(s, i + 2, AnsiParams)
         IN  IF /\ s[i] = ESC
                /\ i + 1 <= Len(s) /\ s[i + 1] = "["
                /\ j <= Len(s) /\ s[j] = "m"
             THEN StripAnsiFrom(s, j + 1)
             ELSE <<s[i]>> \o StripAnsiFrom(s, i + 1)

StripAnsi(s) == StripAnsiFrom(s, 1)

\* the replacement of a run of three or more line breaks
CollapsedRun == <<NL, NL>>

\* re.sub(r'\n{3,}', '\n\n', s) from position i: the greedy match takes the whole run
RECURSIVE CollapseNewlinesFrom(_, _)
CollapseNewlinesFrom(s, i) ==
    IF i > Len(s) THEN <<>>
    ELSE LET j == SkipWhile(s, i, {NL})
         IN  IF j - i >= 3
             THEN CollapsedRun \o CollapseNewlinesFrom(s, j)
             ELSE <<s[i]>> \o CollapseNewlinesFrom(s, i + 1)

CollapseNewlines(s) == CollapseNewlinesFrom(s, 1)

\* the last position down from i that holds no whitespace (0 if none)
RECURSIVE SkipBack(_, _)
SkipBack(s, i) ==
    IF i >= 1 /\ s[i] \in Whitespace THEN SkipBack(s, i - 1) ELSE i

\* str.strip()
Strip(s) ==
    LET a == SkipWhile(s, 1, Whitespace)
        b == SkipBack(s, Len(s))
    IN  IF a > b THEN <<>> ELSE SubSeq(s, a, b)

clean_aichat_output(c, raw) ==
    IF ~c.aichat_clean_output THEN raw
    ELSE Strip(CollapseNewlines(raw))

clean_opencode_output(c, raw) ==
    IF ~c.opencode_clean_output THEN raw
    ELSE Strip(CollapseNewlines(StripAnsi(raw)))

\* get_output_cleaner() of the runner
OutputCleaner(r, c, raw) ==
    IF r = "aichat" THEN clean_aichat_output(c, raw) ELSE clean_opencode_output(c, raw)

CleanEnabled(r, c) ==
    IF r = "aichat" THEN c.aichat_clean_output ELSE c.opencode_clean_output

\* the cleaner is applied to the raw output, then to its own result
CleanOutput ==
    /\ Len(outputs) < MaxPasses
    /\ outputs' = Append(outputs,
                    OutputCleaner(cleaner, cfg,
                        IF outputs = <<>> THEN raw_output ELSE outputs[Len(outputs)]))
    /\ UNCHANGED <<cfg, cleaner, raw_output>>

InitClean ==
    /\ cfg \in CleanerConfigs
    /\ RunnerInit
    /\ InvIdle
    /\ cleaner \in {"aichat", "opencode"}
    /\ raw_output \in Texts(MaxTextLen)
    /\ outputs = <<>>
    /\ CouncilIdle
    /\ LookupIdle

NextClean == CleanOutput /\ UNCHANGED notCleanVars

SpecClean == InitClean /\ [][NextClean]_vars

\* C3: for both cleaners and either setting of clean_output, cleaning a cleaned
\* text changes nothing, and with the option off cleaning changes nothing at all.
C3_CleanIdempotent ==
    /\ Len(outputs) >= 2 => outputs[2] = outputs[1]
    /\ (Len(outputs) >= 1 /\ ~CleanEnabled(cleaner, cfg)) => outputs[1] = raw_output

\* the part of C3 about clean_aichat_output alone
CleanAichatIdempotent ==
    cleaner = "aichat" => C3_CleanIdempotent

----------------------------------------------------------------------------
(* The council orchestrator, up to the round-2 dispatch *)

\* SessionHandle {agent_id, opaque token}; session_store maps the agents that
\* hold a handle to it
SessionHandle(a) == [agent_id |-> a, token |-> <<"s","e","s","_","1">>]

\* the handles Round1Collect stores: one for each round-1 success
HandlesAfterRound1(t, status) ==
    [a \in {b \in t : status[b] = "success"} |-> SessionHandle(a)]

\* a dispatch that resumes every agent of the team
Round2DispatchSet_Everyone(t, store) == t

\* the agents Round2Dispatch resumes: the ones holding a round-1 handle
Round2DispatchSet(t, store) == {a \in t : a \in DOMAIN store}

\* resolves the requested team into the agents of this run
RoleResolution ==
    /\ phase = "RoleResolution"
    /\ \E t \in (SUBSET Agents) \ {{}} : team' = t
    /\ phase' = "Round1Dispatch"
    /\ UNCHANGED <<r1_status, session_store, r2_dispatched>>

\* issues the exec command of every agent of the team
Round1Dispatch ==
    /\ phase = "Round1Dispatch"
    /\ r1_status' = [a \in Agents |-> IF a \in team THEN "running" ELSE "none"]
    /\ phase' = "Round1Collect"
    /\ UNCHANGED <<team, session_store, r2_dispatched>>

\* one dispatched invocation completes, fails or is timed out
Round1Finish(a) ==
    /\ phase = "Round1Collect"
    /\ r1_status[a] = "running"
    /\ \E st \in {"success", "timeout", "error"} :
            r1_status' = [r1_status EXCEPT ![a] = st]
    /\ UNCHANGED <<phase, team, session_store, r2_dispatched>>

\* the join barrier: stores the handles of the successes
Round1Collect ==
    /\ phase = "Round1Collect"
    /\ \A a \in team : r1_status[a] # "running"
    /\ session_store' = HandlesAfterRound1(team, r1_status)
    /\ phase' = IF \E a \in team : r1_status[a] = "success"
                THEN "Round2Dispatch" ELSE "Aborted"
    /\ UNCHANGED <<team, r1_status, r2_dispatched>>

\* builds and dispatches the resume commands
Round2Dispatch ==
    /\ phase = "Round2Dispatch"
    /\ r2_dispatched' = Round2DispatchSet(team, session_store)
    /\ phase' = "Round2Collect"
    /\ UNCHANGED <<team, r1_status, session_store>>

InitCouncil ==
    /\ cfg \in {c \in CleanerConfigs : c.aichat_clean_output /\ c.opencode_clean_output}
    /\ RunnerInit
    /\ InvIdle
    /\ CleanIdle
    /\ CouncilIdle
    /\ LookupIdle

NextCouncil ==
    \/ (RoleResolution /\ UNCHANGED notCouncilVars)
    \/ (Round1Dispatch /\ UNCHANGED notCouncilVars)
    \/ (\E a \in Agents : Round1Finish(a) /\ UNCHANGED notCouncilVars)
    \/ (Round1Collect /\ UNCHANGED notCouncilVars)
    \/ (Round2Dispatch /\ UNCHANGED notCouncilVars)

SpecCouncil == InitCouncil /\ [][NextCouncil]_vars

\* C5: the agents a round-2 resume command is dispatched to are exactly the
\* agents holding a round-1 session handle, and an agent whose round-1 status is
\* timeout or error is never among them.
C5_Round2OnlyHandleHolders ==
    /\ \A a \in r2_dispatched : r1_status[a] = "success"
    /\ phase = "Round2Collect"
        => r2_dispatched = DOMAIN session_store

C5_Witness ==
    /\ phase = "Round2Collect"
    /\ r1_status["Gemini"] = "timeout"
    /\ r1_status["OpenCode"] = "error"
    /\ r2_dispatched = {"Codex", "ClaudeOR"}

----------------------------------------------------------------------------
(* get_latest_opencode_session *)

\* max_retries: int = 3
DefaultMaxRetries == 3

MTimes == 1..MaxMTime

\* the mtimes a file takes in the model: the session files of the project take
\* every one; a file the lookup must pass over (one that is no ses_*.json, one of
\* another project) is given the newest, which is when it would be preferred
MTimesOf(f) ==
    IF f.dir = "hP" /\ f.name # F_notes THEN MTimes ELSE {MaxMTime}

\* since_mtime: <<>> is None, <<t>> is the timestamp t
SinceValues == {<<>>} \cup {<<t>> : t \in MTimes}

W_p == <<"/","p">>
W_q == <<"/","q">>

\* _get_opencode_project_hash: the directory name of a working directory
ProjectHash(wd) == IF wd = W_p THEN "hP" ELSE "hQ"

Dirs == {f.dir : f \in FileSlots}

W_ses == <<"s","e","s","_">>
W_dotjson == <<".","j","s","o","n">>

\* project_dir.glob("ses_*.json")
GlobMatches(name) ==
    /\ Len(name) >= Len(W_ses) + Len(W_dotjson)
    /\ SubSeq(name, 1, Len(W_ses)) = W_ses
    /\ SubSeq(name, Len(name) - Len(W_dotjson) + 1, Len(name)) = W_dotjson

\* the position of the last "." of a name, 0 if none
RECURSIVE LastDot(_, _)
LastDot(name, i) ==
    IF i = 0 THEN 0 ELSE IF name[i] = "." THEN i ELSE LastDot(name, i - 1)

\* Path.stem: the name without its last suffix
Stem(name) ==
    LET d == LastDot(name, Len(name))
    IN  IF d > 1 /\ d < Len(name) THEN SubSeq(name, 1, d - 1) ELSE name

Present(files) == {f \in FileSlots : files[f] > 0}

\* project_dirs, as the set of directory names the scan goes through
ProjectDirs(wd) == IF wd # None THEN {ProjectHash(wd)} ELSE Dirs

\* the comparison skipping every file
SkipsFile_Inverted(mtime, since) == since # <<>> /\ mtime > since[1]

\* if since_mtime is not None and mtime < since_mtime: continue
SkipsFile(mtime, since) == since # <<>> /\ mtime < since[1]

NoFile == [dir |-> "", name |-> <<>>]

\* the loop over the session files, in the order the listing gives them
RECURSIVE LatestFile(_, _, _, _, _, _)
LatestFile(listing, i, files, since, latest_file, latest_mtime) ==
    IF i > Len(listing) THEN latest_file
    ELSE LET mtime == files[listing[i]]
         IN  IF SkipsFile(mtime, since)
             THEN LatestFile(listing, i + 1, files, since, latest_file, latest_mtime)
             ELSE IF mtime > latest_mtime
                  THEN LatestFile(listing, i + 1, files, since, listing[i], mtime)
                  ELSE LatestFile(listing, i + 1, files, since, latest_file, latest_mtime)

\* every order in which a set of files can be listed
RECURSIVE Orderings(_)
Orderings(S) ==
    IF S = {} THEN {<<>>}
    ELSE UNION {{<<f>> \o rest : rest \in Orderings(S \ {f})} : f \in S}

\* a sleep after every scan, the last one too
SleepsAfter_Always(attempt, max_retries) == attempt < max_retries

\* if attempt < max_retries - 1: time.sleep(retry_delay)
SleepsAfter(attempt, max_retries) == attempt < max_retries - 1

\* for attempt in range(max_retries): whether iteration `attempt` runs
LoopRuns(attempt, max_retries) == attempt < max_retries

Returns(l, token) == [l EXCEPT !.pc = "done", !.result = token]

\* if not opencode_dir.exists(): return None
CheckStorage ==
    /\ lookup.pc = "start"
    /\ lookup' = IF ~root_exists THEN Returns(lookup, None)
                 ELSE IF LoopRuns(0, lookup.max_retries)
                      THEN [lookup EXCEPT !.pc = "scan"]
                      ELSE Returns(lookup, None)
    /\ UNCHANGED <<root_exists, fs, trace, seen, written>>

\* opencode_dir.iterdir() raises OSError: return None
ScanListingFails ==
    /\ lookup.pc = "scan"
    /\ lookup.working_directory = None
    /\ lookup' = Returns(lookup, None)
    /\ trace' = Append(trace, "iterdir_error")
    /\ seen' = {}
    /\ UNCHANGED <<root_exists, fs, written>>

\* one pass of the retry loop.  `readable` are the files whose directory listing
\* and stat() succeed; a file whose read raises OSError is passed over.
Scan ==
    /\ lookup.pc = "scan"
    /\ \E readable \in SUBSET Present(fs) :
       \E listing \in Orderings({f \in readable :
                                    /\ f.dir \in ProjectDirs(lookup.working_directory)
                                    /\ GlobMatches(f.name)}) :
            LET latest_file == LatestFile(listing, 1, fs, lookup.since_mtime, NoFile, 0)
                next == lookup.attempt + 1
            IN  /\ IF latest_file # NoFile
                   THEN /\ lookup' = Returns(lookup, Stem(latest_file.name))
                        /\ trace' = Append(trace, "hit")
                   ELSE /\ trace' = Append(trace, "miss")
                        /\ lookup' =
                            IF SleepsAfter(lookup.attempt, lookup.max_retries)
                            THEN [lookup EXCEPT !.pc = "sleep"]
                            ELSE IF LoopRuns(next, lookup.max_retries)
                                 THEN [lookup EXCEPT !.attempt = next]
                                 ELSE Returns([lookup EXCEPT !.attempt = next], None)
                /\ seen' = IF lookup'.pc = "done"
                            THEN {[dir |-> f.dir, name |-> f.name, mtime |-> fs[f]] :
                                    f \in readable}
                            ELSE {}
    /\ UNCHANGED <<root_exists, fs, written>>

\* time.sleep(retry_delay), then the next iteration of the loop, if any
Sleep ==
    /\ lookup.pc = "sleep"
    /\ trace' = Append(trace, "sleep")
    /\ LET next == lookup.attempt + 1
       IN  lookup' = IF LoopRuns(next, lookup.max_retries)
                     THEN [lookup EXCEPT !.pc = "scan", !.attempt = next]
                     ELSE Returns([lookup EXCEPT !.attempt = next], None)
    /\ UNCHANGED <<root_exists, fs, seen, written>>

LookupStep == CheckStorage \/ ScanListingFails \/ Scan \/ Sleep

\* the wrapped tool writes (or rewrites) a file of the storage tree
ToolWrites(f, t) ==
    /\ lookup.pc \in {"start", "scan", "sleep"}
    /\ fs[f] # t
    /\ fs' = [fs EXCEPT ![f] = t]
    /\ root_exists' = TRUE
    /\ written' = written \cup {f}
    /\ UNCHANGED <<lookup, trace, seen>>

\* a file of the storage tree is removed
FileRemoved(f) ==
    /\ lookup.pc \in {"start", "scan", "sleep"}
    /\ fs[f] > 0
    /\ fs' = [fs EXCEPT ![f] = 0]
    /\ written' = written \ {f}
    /\ UNCHANGED <<root_exists, lookup, trace, seen>>

InitLookup ==
    /\ cfg \in {c \in CleanerConfigs : c.aichat_clean_output /\ c.opencode_clean_output}
    /\ RunnerInit
    /\ InvIdle
    /\ CleanIdle
    /\ CouncilIdle
    /\ fs \in {files \in [FileSlots -> 0..MaxMTime] :
                    \A f \in FileSlots : files[f] \in MTimesOf(f) \cup {0}}
    /\ root_exists \in {b \in BOOLEAN : Present(fs) # {} => b}
    /\ \E wd \in {None, W_p}, since \in SinceValues, n \in 0..DefaultMaxRetries :
            lookup = [pc |-> "start", working_directory |-> wd, since_mtime |-> since,
                      max_retries |-> n, attempt |-> 0, result |-> None]
    /\ trace = <<>>
    /\ seen = {}
    /\ written = {}

NextLookup ==
    \/ (CheckStorage /\ UNCHANGED notLookupVars)
    \/ (ScanListingFails /\ UNCHANGED notLookupVars)
    \/ (Scan /\ UNCHANGED notLookupVars)
    \/ (Sleep /\ UNCHANGED notLookupVars)
    \/ (\E f \in FileSlots : \E t \in MTimesOf(f) :
            ToolWrites(f, t) /\ UNCHANGED notLookupVars)
    \/ (\E f \in FileSlots : FileRemoved(f) /\ UNCHANGED notLookupVars)

SpecLookup == InitLookup /\ [][NextLookup]_vars

----------------------------------------------------------------------------
(* Claims about get_latest_opencode_session (checked under SpecLookup) *)

Done == lookup.pc = "done"
ScanEvents == {"hit", "miss", "iterdir_error"}
CountOf(events) == Cardinality({i \in 1..Len(trace) : trace[i] \in events})

Newer(mtime, since) == since = <<>> \/ mtime > since[1]

\* C6: with a working_directory and a since_mtime, a returned token is the stem
\* of the ses_*.json file of greatest mtime among the files of that project's
\* directory that are newer than since_mtime, as the returning scan read them;
\* no file of another directory and no file not newer than since_mtime is returned.
C6_ReturnsNewestNewerThanSince ==
    (Done /\ lookup.result # None /\ lookup.working_directory # None
          /\ lookup.since_mtime # <<>>)
        => \E f \in seen :
            /\ f.dir = ProjectHash(lookup.working_directory)
            /\ GlobMatches(f.name)
            /\ Stem(f.name) = lookup.result
            /\ f.mtime > lookup.since_mtime[1]
            /\ \A g \in seen :
                (/\ g.dir = f.dir
                 /\ GlobMatches(g.name)
                 /\ g.mtime > lookup.since_mtime[1]) => g.mtime <= f.mtime

LateArtifacts ==
    {f \in written :
        /\ fs[f] > 0
        /\ f.dir \in ProjectDirs(lookup.working_directory)
        /\ GlobMatches(f.name)
        /\ Newer(fs[f], lookup.since_mtime)}

----------------------------------------------------------------------------
(* SpecRoundTrip: the token parse_session_id returns is handed back to the   *)
(* same runner's build_resume_command, as round 2 does.  A run follows one   *)
(* runner: aichat (exec, parse, resume) or OpenCode (the session lookup of   *)
(* parse_session_id, then resume).  The storage tree is any tree and stays   *)
(* as it is during the lookup; a scan may still fail to read a file.         *)

\* AiChatRunner.build_resume_command(session_ref = the parsed token, ...)
AiChat_resume_parsed ==
    /\ lookup.pc = "idle"
    /\ call.runner = "aichat" /\ call.op = "parse"
    /\ call.token # None
    /\ \E prompt \in Prompts :
        LET r == AiChatResumeCommand(cfg, call.token, prompt)
        IN  call' = [runner |-> "aichat", op |-> "resume",
                     session_ref |-> call.token, prompt |-> prompt,
                     raised |-> r.raised, cmd |-> r.cmd, token |-> call.token]
    /\ UNCHANGED <<cfg, last_session_name, last_exec_command>>

\* OpenCodeRunner.parse_session_id: returns what get_latest_opencode_session,
\* called with the default max_retries, returned
OpenCode_parse_session_id ==
    /\ lookup.pc = "done"
    /\ call.op = "none"
    /\ call' = [runner |-> "opencode", op |-> "parse", session_ref |-> None,
                prompt |-> None, raised |-> FALSE, cmd |-> NoCommand,
                token |-> lookup.result]
    /\ UNCHANGED <<cfg, last_session_name, last_exec_command>>

\* OpenCodeRunner.build_resume_command(session_ref = the parsed token, ...)
OpenCode_resume_parsed ==
    /\ call.runner = "opencode" /\ call.op = "parse"
    /\ call.token # None
    /\ \E prompt \in Prompts :
        LET r == OpenCodeResumeCommand(cfg, call.token, prompt)
        IN  call' = [runner |-> "opencode", op |-> "resume",
                     session_ref |-> call.token, prompt |-> prompt,
                     raised |-> r.raised, cmd |-> r.cmd, token |-> call.token]
    /\ UNCHANGED <<cfg, last_session_name, last_exec_command>>

InitRoundTrip ==
    /\ RunnerInit
    /\ InvIdle
    /\ CleanIdle
    /\ CouncilIdle
    /\ \/ /\ cfg \in {c \in BuilderConfigs : c.opencode_model = <<>>
                        /\ c.opencode_agent = <<>> /\ ~c.json_output}
          /\ LookupIdle
       \/ /\ cfg \in {c \in BuilderConfigs : c.aichat_model = <<>>
                        /\ c.opencode_agent = <<>>}
          /\ fs \in {files \in [FileSlots -> 0..MaxMTime] :
                        \A f \in FileSlots : files[f] \in MTimesOf(f) \cup {0}}
          /\ root_exists \in {b \in BOOLEAN : Present(fs) # {} => b}
          /\ \E wd \in {None, W_p}, since \in SinceValues :
                lookup = [pc |-> "start", working_directory |-> wd,
                          since_mtime |-> since, max_retries |-> DefaultMaxRetries,
                          attempt |-> 0, result |-> None]
          /\ trace = <<>>
          /\ seen = {}
          /\ written = {}

NextRoundTrip ==
    \/ (lookup.pc = "idle" /\ AiChat_build_exec_command
            /\ UNCHANGED <<invVars, notRunnerVars>>)
    \/ (lookup.pc = "idle" /\ AiChat_parse_session_id
            /\ UNCHANGED <<invVars, notRunnerVars>>)
    \/ (AiChat_resume_parsed /\ UNCHANGED <<invVars, notRunnerVars>>)
    \/ (CheckStorage /\ UNCHANGED notLookupVars)
    \/ (ScanListingFails /\ UNCHANGED notLookupVars)
    \/ (Scan /\ UNCHANGED notLookupVars)
    \/ (Sleep /\ UNCHANGED notLookupVars)
    \/ (OpenCode_parse_session_id /\ UNCHANGED <<invVars, notRunnerVars>>)
    \/ (OpenCode_resume_parsed /\ UNCHANGED <<invVars, notRunnerVars>>)

SpecRoundTrip == InitRoundTrip /\ [][NextRoundTrip]_vars

\* the resume call was given a token parse_session_id returned
ResumedParsed(r) == call.runner = r /\ call.op = "resume" /\ call.token # None

\* C11: every non-none token parse_session_id returns is accepted by the same
\* runner's build_resume_command, and is, unchanged, the element right after the
\* session option of the argument list ('-s' for aichat, '--session' for OpenCode).
C11_TokenRoundTrip ==
    /\ ResumedParsed("aichat")
        => /\ ~call.raised
           /\ call.cmd.command[Len(call.cmd.command) - 1] = W_s
           /\ call.cmd.command[Len(call.cmd.command)] = call.token
    /\ ResumedParsed("opencode")
        => /\ ~call.raised
           /\ call.cmd.command[Len(call.cmd.command) - 3] = W_session
           /\ call.cmd.command[Len(call.cmd.command) - 2] = call.token
    /\ (call.op = "parse" /\ call.token # None)
        => IF call.runner = "aichat"
           THEN call.token \in SessionNames
           ELSE \E f \in FileSlots : GlobMatches(f.name) /\ call.token = Stem(f.name)

C11_Witness ==
    /\ ResumedParsed("opencode")
    /\ trace = <<"miss", "sleep", "hit">>
    /\ call.token = <<"s","e","s","_","2">>
    /\ ~call.raised
    /\ call.cmd.command[Len(call.cmd.command) - 2] = <<"s","e","s","_","2">>

\* the aichat side of the round trip is reached too
C11_WitnessAichat ==
    /\ ResumedParsed("aichat")
    /\ ~call.raised
    /\ call.cmd.command[Len(call.cmd.command)] = W_owlex \o <<"1">>

====
